---- MODULE Spec2Model ----
(***************************************************************************)
(* Model of bot.py: the job queue and its single worker thread, the        *)
(* per-user document reference (context.user_data["last_pdf"]), the        *)
(* require_pdf precondition, the /clean dispatcher and its payload, and    *)
(* the progress bar with the binary64 arithmetic Python uses for it.       *)
(***************************************************************************)
EXTENDS Integers, Sequences, FiniteSets, TLC

(***************************************************************************)
(* Bounds of the model                                                     *)
(***************************************************************************)
MaxTotalSteps == 50   \* largest total_steps the progress specification draws
MaxUser == 2          \* Telegram users 1..MaxUser
MaxEvents == 3        \* updates delivered to the Application, external deletions
MaxMergeEvents == 5   \* the same, in the specification of the merge commands
MaxTime == 0          \* int(time.time()) ranges over 0..MaxTime
MaxMergeSet == 3      \* /merge requests remembered per user
MaxPages == 3         \* pages of an uploaded document

(***************************************************************************)
(* Python floats (IEEE-754 binary64), as far as progress_bar uses them.    *)
(* A positive normal float is [f |-> <<l1, l2, l3, l4>>, e |-> k]: the     *)
(* 52-bit fraction in four 13-bit limbs, most significant first, with the  *)
(* implicit leading 1, so the value is (1 + frac / 2^52) * 2^k.            *)
(***************************************************************************)
LimbBits == 13

RECURSIVE Pow2(_)
Pow2(n) == IF n = 0 THEN 1 ELSE 2 * Pow2(n - 1)

Limb == Pow2(LimbBits)

\* Fraction + 1 in the last place; carry tells that it wrapped to zero.
IncFrac(f) ==
    IF f[4] + 1 < Limb THEN [f |-> <<f[1], f[2], f[3], f[4] + 1>>, carry |-> FALSE]
    ELSE IF f[3] + 1 < Limb THEN [f |-> <<f[1], f[2], f[3] + 1, 0>>, carry |-> FALSE]
    ELSE IF f[2] + 1 < Limb THEN [f |-> <<f[1], f[2] + 1, 0, 0>>, carry |-> FALSE]
    ELSE IF f[1] + 1 < Limb THEN [f |-> <<f[1] + 1, 0, 0, 0>>, carry |-> FALSE]
    ELSE [f |-> <<0, 0, 0, 0>>, carry |-> TRUE]

\* Round to nearest, ties to even: fraction f at exponent e, guard the
\* first discarded bit, sticky telling that nonzero bits follow it.
RoundNearestEven(f, e, guard, sticky) ==
    LET up  == guard = 1 /\ (sticky \/ f[4] % 2 = 1)
        inc == IncFrac(f)
    IN  IF ~up THEN [f |-> f, e |-> e]
        ELSE IF inc.carry THEN [f |-> inc.f, e |-> e + 1]
        ELSE [f |-> inc.f, e |-> e]

\* Scale (by doubling n or d) until d <= n < 2d; sh is the power of two
\* taken out: a/b = (n/d) * 2^sh.
RECURSIVE Normalize(_, _, _)
Normalize(n, d, sh) ==
    IF n < d THEN Normalize(2 * n, d, sh - 1)
    ELSE IF n >= 2 * d THEN Normalize(n, 2 * d, sh + 1)
    ELSE [n |-> n, d |-> d, sh |-> sh]

\* a / b for positive ints a, b (Python true division, correctly rounded):
\* long division, one limb of quotient bits at a time.
FloatDiv(a, b) ==
    LET nz == Normalize(a, b, 0)
        d  == nz.d
        r0 == nz.n - d
        l1 == (r0 * Limb) \div d
        r1 == (r0 * Limb) % d
        l2 == (r1 * Limb) \div d
        r2 == (r1 * Limb) % d
        l3 == (r2 * Limb) \div d
        r3 == (r2 * Limb) % d
        l4 == (r3 * Limb) \div d
        r4 == (r3 * Limb) % d
        g  == IF 2 * r4 >= d THEN 1 ELSE 0
    IN  RoundNearestEven(<<l1, l2, l3, l4>>, nz.sh, g, 2 * r4 - g * d # 0)

\* Number of bits of a positive int.
RECURSIVE BitLen(_)
BitLen(n) == IF n = 0 THEN 0 ELSE 1 + BitLen(n \div 2)

\* x * c for a float x and a small positive int c (c is exact as a float):
\* the exact product limb by limb, shifted back to one leading bit, rounded.
FloatMulInt(x, c) ==
    LET t4 == x.f[4] * c
        t3 == x.f[3] * c + t4 \div Limb
        t2 == x.f[2] * c + t3 \div Limb
        t1 == x.f[1] * c + t2 \div Limb
        t0 == c + t1 \div Limb
        p1 == t1 % Limb
        p2 == t2 % Limb
        p3 == t3 % Limb
        p4 == t4 % Limb
        k  == BitLen(t0) - 1
        lo == Pow2(k)
        hi == Pow2(LimbBits - k)
        q1 == (t0 % lo) * hi + p1 \div lo
        q2 == (p1 % lo) * hi + p2 \div lo
        q3 == (p2 % lo) * hi + p3 \div lo
        q4 == (p3 % lo) * hi + p4 \div lo
        dropped == p4 % lo
        g  == IF k = 0 THEN 0 ELSE dropped \div Pow2(k - 1)
        st == IF k = 0 THEN FALSE ELSE dropped % Pow2(k - 1) # 0
    IN  RoundNearestEven(<<q1, q2, q3, q4>>, x.e + k, g, st)

\* int(x): truncation of a positive float below 2^27.
FloatTrunc(x) ==
    IF x.e < 0 THEN 0
    ELSE Pow2(x.e) + (x.f[1] * Limb + x.f[2]) \div Pow2(2 * LimbBits - x.e)

(***************************************************************************)
(* progress_bar: the text of the update issued at one step.                *)
(***************************************************************************)
bar_length == 20

\* int(bar_length * step / total_steps); q is the quotient, computed once.
filled(step, total_steps) ==
    CHOOSE n \in {FloatTrunc(q) : q \in {FloatDiv(bar_length * step, total_steps)}} : TRUE

\* int((step / total_steps) * 100); q is the quotient and m the product,
\* each computed once.
percent(step, total_steps) ==
    CHOOSE n \in {FloatTrunc(m) : m \in {FloatMulInt(q, 100) :
                                         q \in {FloatDiv(step, total_steps)}}} : TRUE

progress_text(action, step, total_steps) ==
    [action  |-> action,
     filled  |-> filled(step, total_steps),
     unfilled |-> bar_length - filled(step, total_steps),
     percent |-> percent(step, total_steps)]

(***************************************************************************)
(* Files, paths and names.  A file name is a sequence of tokens, so that   *)
(* lower(), endswith() and replace() act on it as they do on the string.   *)
(***************************************************************************)
Users == 1..MaxUser

FileNames == { <<"doc", ".pdf">>, <<"doc", ".PDF">>, <<"doc", ".txt">> }

\* os.path.join(WORK, f"{user_id}_{int(time.time())}_{file_name}")
Path(uid, ts, name) == [uid |-> uid, ts |-> ts, name |-> name]

\* No path: user_data.get("last_pdf") is None.
None == Path(0, 0, << >>)

LowerToken(t) == IF t = ".PDF" THEN ".pdf" ELSE t

\* str.lower()
lower(name) == [i \in 1..Len(name) |-> LowerToken(name[i])]

\* str.endswith(".pdf")
endswith_pdf(name) == Len(name) > 0 /\ name[Len(name)] = ".pdf"

\* str.replace(".pdf", "_clean.pdf"): every occurrence is replaced.
RECURSIVE replace_pdf(_)
replace_pdf(name) ==
    IF name = << >> THEN << >>
    ELSE (IF Head(name) = ".pdf" THEN <<"_clean", ".pdf">> ELSE <<Head(name)>>)
         \o replace_pdf(Tail(name))

\* out = pdf.replace(".pdf", "_clean.pdf"); the directory, the user id and
\* the timestamp contain no ".pdf".
clean_out(pdf) == Path(pdf.uid, pdf.ts, replace_pdf(pdf.name))

(***************************************************************************)
(* State                                                                   *)
(***************************************************************************)
VARIABLES
    user_data,        \* context.user_data["last_pdf"] of each user, or None
    files,            \* the paths for which os.path.exists holds
    job_queue,        \* queue.Queue(): the pending tasks, head first
    unfinished_tasks, \* Queue.unfinished_tasks
    MERGE_QUEUE,      \* the global list MERGE_QUEUE
    wpc,              \* where the worker thread is
    task,             \* the task the worker holds, or NoTask
    total_steps,      \* progress_bar's argument total_steps
    step,             \* progress_bar's loop variable
    status_text,      \* the last text progress_bar passed to edit_text
    pages,            \* len(PdfReader(p).pages) of each file p
    status,           \* state of each job created so far, by job id
    created,          \* the tasks cmd_clean has built, by job id
    started,          \* job ids in the order the worker started them
    printed,          \* what the worker printed: "Error in job:" lines
    chat,             \* messages delivered to the users, with their counts
    events,           \* number of updates and deletions so far
    last_event,       \* the most recent update delivered to the Application
    asked,            \* per user, the documents /merge was sent for
    finalized         \* the documents of the most recent /done, and its user

vars == <<user_data, files, pages, job_queue, unfinished_tasks, MERGE_QUEUE, wpc,
          task, total_steps, step, status_text, status, created, started, printed, chat, events,
          last_event, asked, finalized>>

storeVars  == <<user_data, files, pages>>
queueVars  == <<job_queue, unfinished_tasks, status, created>>
workerVars == <<wpc, task, total_steps, step, status_text, started, printed>>
mergeVars  == <<MERGE_QUEUE, asked, finalized>>

\* A task: the closure cmd_clean builds, with what it captures.
Task(id, u, pdf, out) == [id |-> id, user |-> u, op |-> "clean", pdf |-> pdf, out |-> out]

NoTask == [id |-> 0, user |-> 0, op |-> "none", pdf |-> None, out |-> None]

Event(kind, u, ref) == [kind |-> kind, user |-> u, ref |-> ref]

Msg(u, kind, id) == [to |-> u, kind |-> kind, job |-> id]

\* One more copy of message m delivered.
Send(c, m) == IF m \in DOMAIN c THEN [c EXCEPT ![m] = @ + 1] ELSE c @@ (m :> 1)

Count(c, m) == IF m \in DOMAIN c THEN c[m] ELSE 0

NoText == [text |-> [action |-> "none", filled |-> 0, unfilled |-> 0, percent |-> 0],
           step |-> 0, delivered |-> FALSE]

\* get_page_count: None (0 here; no PDF has no pages) when PdfReader raises.
get_page_count(pdf_path) ==
    IF pdf_path \in DOMAIN pages THEN pages[pdf_path] ELSE 0

\* os.path.join(out_folder, f"page_{i}.pdf")
PagePath(out_folder, i) == [folder |-> out_folder, page |-> i]

\* split_pdf: the paths it returns, one per page of reader.pages, in the
\* order of enumerate(reader.pages, start=1).
split_pdf(input_pdf, out_folder) ==
    [i \in 1..get_page_count(input_pdf) |-> PagePath(out_folder, i)]

Init ==
    /\ user_data = [u \in Users |-> None]
    /\ files = {}
    /\ pages = << >>
    /\ job_queue = << >>
    /\ unfinished_tasks = 0
    /\ MERGE_QUEUE = << >>
    /\ wpc = "get"
    /\ task = NoTask
    /\ total_steps = 0
    /\ step = 0
    /\ status_text = NoText
    /\ status = << >>
    /\ created = << >>
    /\ started = << >>
    /\ printed = << >>
    /\ chat = << >>
    /\ events = 0
    /\ last_event = Event("none", 0, None)
    /\ asked = [u \in Users |-> << >>]
    /\ finalized = [user |-> 0, docs |-> << >>]

eventVars == <<events, last_event>>

(***************************************************************************)
(* Handlers.  The Application is built without concurrent_updates, so it   *)
(* runs one handler at a time: each handler is one step.                   *)
(***************************************************************************)

\* start: the help text.
start(u) ==
    /\ chat' = Send(chat, Msg(u, "help", 0))
    /\ events' = events + 1
    /\ last_event' = Event("start", u, None)
    /\ UNCHANGED <<storeVars, queueVars, workerVars, mergeVars>>

\* One module-level last_pdf for all users instead of context.user_data.
record_upload_global(u, local_path) == [v \in Users |-> local_path]

\* The first reference is kept (user_data.setdefault).
record_upload_keep(u, local_path) ==
    IF user_data[u] = None THEN [user_data EXCEPT ![u] = local_path] ELSE user_data

\* context.user_data["last_pdf"] = local_path
record_upload(u, local_path) == [user_data EXCEPT ![u] = local_path]

\* handle_pdf_upload: ts is what int(time.time()) returns (wall-clock time,
\* any value); downloaded tells whether get_file and download_to_drive
\* returned; when they raise, the handler ends there.  n_pages is the
\* number of pages of the document sent.
handle_pdf_upload(u, file_name, ts, downloaded, n_pages) ==
    /\ events' = events + 1
    /\ LET local_path == Path(u, ts, file_name)
       IN  IF ~endswith_pdf(lower(file_name))
           THEN /\ chat' = Send(chat, Msg(u, "not_pdf", 0))
                /\ last_event' = Event("upload_rejected", u, None)
                /\ UNCHANGED storeVars
           ELSE IF ~downloaded
           THEN /\ chat' = Send(chat, Msg(u, "downloading", 0))
                /\ last_event' = Event("upload_failed", u, None)
                /\ UNCHANGED storeVars
           ELSE /\ chat' = Send(Send(chat, Msg(u, "downloading", 0)),
                                Msg(u, "received", 0))
                /\ files' = files \cup {local_path}
                /\ pages' = [p \in DOMAIN pages \cup {local_path} |->
                                IF p = local_path THEN n_pages ELSE pages[p]]
                /\ user_data' = record_upload(u, local_path)
                /\ last_event' = Event("upload", u, local_path)
    /\ UNCHANGED <<queueVars, workerVars, mergeVars>>

\* The os.path.exists test left out.
require_pdf_noexists(u) == user_data[u] # None

\* require_pdf: the condition under which the wrapped handler is called.
require_pdf(u) ==
    LET pdf == user_data[u]
    IN  pdf # None /\ pdf \in files

\* put on a Queue(maxsize=1): blocks while the queue is full.
enqueue_bounded(task_callable) ==
    /\ Len(job_queue) < 1
    /\ job_queue' = Append(job_queue, task_callable)
    /\ unfinished_tasks' = unfinished_tasks + 1

\* enqueue: job_queue.put(task_callable) on a Queue without maxsize.
enqueue(task_callable) ==
    /\ job_queue' = Append(job_queue, task_callable)
    /\ unfinished_tasks' = unfinished_tasks + 1

\* The "Cleaning PDF..." message awaited in the handler, before enqueue.
cmd_clean_inline(u) ==
    /\ events' = events + 1
    /\ last_event' = Event("clean", u, user_data[u])
    /\ IF ~require_pdf(u)
       THEN /\ chat' = Send(chat, Msg(u, "no_document", 0))
            /\ UNCHANGED queueVars
       ELSE LET pdf == user_data[u]
                out == clean_out(pdf)
            IN  /\ chat' = Send(chat, Msg(u, "started", Len(status) + 1))
                /\ enqueue(Task(Len(status) + 1, u, pdf, out))
                /\ status' = Append(status, "Pending")
                /\ created' = Append(created, Task(Len(status) + 1, u, pdf, out))
    /\ UNCHANGED <<storeVars, workerVars, mergeVars>>

\* cmd_clean behind @require_pdf.
cmd_clean(u) ==
    /\ events' = events + 1
    /\ last_event' = Event("clean", u, user_data[u])
    /\ IF ~require_pdf(u)
       THEN /\ chat' = Send(chat, Msg(u, "no_document", 0))
            /\ UNCHANGED queueVars
       ELSE LET pdf == user_data[u]
                out == clean_out(pdf)
            IN  /\ enqueue(Task(Len(status) + 1, u, pdf, out))
                /\ status' = Append(status, "Pending")
                /\ created' = Append(created, Task(Len(status) + 1, u, pdf, out))
                /\ UNCHANGED chat
    /\ UNCHANGED <<storeVars, workerVars, mergeVars>>

\* The commands the help text lists and main registers no handler for
\* (/compress, /rotate, /extract, /status, /watermarks are like these).
OtherCommands == {"merge", "done", "split"}

\* An update no handler matches: the Application drops it.  asked and
\* finalized remember what the user asked for; the program keeps nothing.
unhandled(u, cmd) ==
    /\ cmd = "merge" => Len(asked[u]) < MaxMergeSet
    /\ events' = events + 1
    /\ last_event' = Event(cmd, u, user_data[u])
    /\ asked' = IF cmd = "merge" /\ user_data[u] # None
                THEN [asked EXCEPT ![u] = Append(@, user_data[u])]
                ELSE IF cmd = "done" THEN [asked EXCEPT ![u] = << >>]
                ELSE asked
    /\ finalized' = IF cmd = "done" THEN [user |-> u, docs |-> asked[u]]
                    ELSE finalized
    /\ UNCHANGED <<storeVars, queueVars, workerVars, MERGE_QUEUE, chat>>

(***************************************************************************)
(* The environment: files removed from the working directory from outside  *)
(* the program.                                                            *)
(***************************************************************************)
external_delete(p) ==
    /\ p \in files
    /\ files' = files \ {p}
    /\ pages' = [q \in DOMAIN pages \ {p} |-> pages[q]]
    /\ events' = events + 1
    /\ last_event' = Event("deleted", 0, p)
    /\ UNCHANGED <<user_data, queueVars, workerVars, mergeVars, chat>>

(***************************************************************************)
(* The worker thread and the payload of a /clean task.                     *)
(***************************************************************************)

\* A LifoQueue: the newest item.
queue_get_lifo(q) == [item |-> q[Len(q)], rest |-> SubSeq(q, 1, Len(q) - 1)]

\* The oldest item read and left in the queue.
queue_get_peek(q) == [item |-> Head(q), rest |-> q]

\* Queue.get on a queue.Queue: the oldest item.
queue_get(q) == [item |-> Head(q), rest |-> Tail(q)]

\* A get that does not wait for the task in hand (one thread per task).
worker_get_nowait ==
    /\ job_queue # << >>
    /\ LET got == [item |-> Head(job_queue), rest |-> Tail(job_queue)]
       IN  /\ task' = got.item
           /\ job_queue' = got.rest
           /\ status' = [status EXCEPT ![got.item.id] = "Running"]
           /\ started' = Append(started, got.item.id)
    /\ wpc' = "reply"
    /\ UNCHANGED <<storeVars, unfinished_tasks, created, total_steps, step,
                   status_text, printed, mergeVars, chat, eventVars>>

\* task = job_queue.get()
worker_get ==
    /\ wpc = "get"
    /\ job_queue # << >>
    /\ LET got == queue_get(job_queue)
       IN  /\ task' = got.item
           /\ job_queue' = got.rest
           /\ status' = [status EXCEPT ![got.item.id] = "Running"]
           /\ started' = Append(started, got.item.id)
    /\ wpc' = "reply"
    /\ UNCHANGED <<storeVars, unfinished_tasks, created, total_steps, step,
                   status_text, printed, mergeVars, chat, eventVars>>

\* No try/except around task(): the exception ends the thread.
worker_except_dies(e) ==
    /\ printed' = printed
    /\ status' = [status EXCEPT ![task.id] = "Failed"]
    /\ wpc' = "dead"

\* except Exception as e: print("Error in job:", e)
worker_except(e) ==
    /\ printed' = Append(printed, [job |-> task.id, error |-> e])
    /\ status' = [status EXCEPT ![task.id] = "Failed"]
    /\ wpc' = "task_done"

\* msg = await update.message.reply_text("Cleaning PDF...")
task_reply(ok) ==
    /\ wpc = "reply"
    /\ IF ok
       THEN /\ chat' = Send(chat, Msg(task.user, "started", task.id))
            /\ wpc' = "progress"
            /\ total_steps' = 8
            /\ step' = 1
            /\ UNCHANGED <<printed, status>>
       ELSE /\ worker_except("reply_text")
            /\ UNCHANGED <<chat, total_steps, step>>
    /\ UNCHANGED <<storeVars, job_queue, unfinished_tasks, created, task,
                   status_text, started, mergeVars, eventVars>>

\* No try/except around message.edit_text: a failed update ends the task.
progress_bar_raise(action, delivered) ==
    /\ wpc = "progress"
    /\ step <= total_steps
    /\ IF delivered
       THEN /\ status_text' = [text |-> progress_text(action, step, total_steps),
                                step |-> step, delivered |-> delivered]
            /\ step' = step + 1
            /\ wpc' = IF step = total_steps THEN "op" ELSE "progress"
            /\ UNCHANGED <<status, printed>>
       ELSE /\ worker_except("edit_text")
            /\ UNCHANGED <<status_text, step>>
    /\ UNCHANGED <<storeVars, job_queue, unfinished_tasks, created, task,
                   total_steps, started, mergeVars, chat, eventVars>>

\* progress_bar: one iteration of its loop.  delivered tells whether
\* message.edit_text took effect; when it raises, the except clause passes.
progress_bar(action, delivered) ==
    /\ wpc = "progress"
    /\ step <= total_steps
    /\ status_text' = [text |-> progress_text(action, step, total_steps),
                        step |-> step, delivered |-> delivered]
    /\ step' = step + 1
    /\ wpc' = IF step = total_steps THEN "op" ELSE "progress"
    /\ UNCHANGED <<storeVars, queueVars, task, total_steps, started, printed,
                   mergeVars, chat, eventVars>>

\* remove_watermark inside try/except: pass; the task goes on after a failure.
task_op_pass(ok) ==
    /\ wpc = "op"
    /\ IF ok /\ task.pdf \in files
       THEN /\ files' = files \cup {task.out}
            /\ pages' = [p \in DOMAIN pages \cup {task.out} |->
                            IF p = task.out THEN pages[task.pdf] ELSE pages[p]]
       ELSE UNCHANGED <<files, pages>>
    /\ wpc' = "edit"
    /\ UNCHANGED <<user_data, job_queue, unfinished_tasks, created, task, printed,
                   status, total_steps, step, status_text, started, mergeVars, chat,
                   eventVars>>

\* pdf and out read from context.user_data inside task, when it runs.
task_op_late(ok) ==
    /\ wpc = "op"
    /\ LET pdf == user_data[task.user]
           out == clean_out(pdf)
       IN  IF ok /\ pdf \in files
           THEN /\ files' = files \cup {out}
                /\ pages' = [p \in DOMAIN pages \cup {out} |->
                                IF p = out THEN pages[pdf] ELSE pages[p]]
                /\ wpc' = "edit"
                /\ UNCHANGED <<printed, status>>
           ELSE /\ worker_except("remove_watermark")
                /\ UNCHANGED <<files, pages>>
    /\ UNCHANGED <<user_data, job_queue, unfinished_tasks, created, task,
                   total_steps, step, status_text, started, mergeVars, chat, eventVars>>

\* remove_watermark(pdf, out): fitz.open raises on a missing file; ok tells
\* whether the library calls returned.  The output has the pages of the
\* input.
task_op(ok) ==
    /\ wpc = "op"
    /\ IF ok /\ task.pdf \in files
       THEN /\ files' = files \cup {task.out}
            /\ pages' = [p \in DOMAIN pages \cup {task.out} |->
                            IF p = task.out THEN pages[task.pdf] ELSE pages[p]]
            /\ wpc' = "edit"
            /\ UNCHANGED <<printed, status>>
       ELSE /\ worker_except("remove_watermark")
            /\ UNCHANGED <<files, pages>>
    /\ UNCHANGED <<user_data, job_queue, unfinished_tasks, created, task,
                   total_steps, step, status_text, started, mergeVars, chat, eventVars>>

\* await msg.edit_text("Cleaned! Sending file...")
task_edit(ok) ==
    /\ wpc = "edit"
    /\ IF ok
       THEN /\ chat' = Send(chat, Msg(task.user, "cleaned", task.id))
            /\ wpc' = "send"
            /\ UNCHANGED <<printed, status>>
       ELSE /\ worker_except("edit_text")
            /\ UNCHANGED chat
    /\ UNCHANGED <<storeVars, job_queue, unfinished_tasks, created, task,
                   total_steps, step, status_text, started, mergeVars, eventVars>>

\* await update.message.reply_document(open(out, "rb")); then task returns.
task_send(ok) ==
    /\ wpc = "send"
    /\ IF ok /\ task.out \in files
       THEN /\ chat' = Send(chat, Msg(task.user, "document", task.id))
            /\ status' = [status EXCEPT ![task.id] = "Completed"]
            /\ wpc' = "task_done"
            /\ UNCHANGED printed
       ELSE /\ worker_except("reply_document")
            /\ UNCHANGED chat
    /\ UNCHANGED <<storeVars, job_queue, unfinished_tasks, created, task,
                   total_steps, step, status_text, started, mergeVars, eventVars>>

\* worker without its while True: the thread ends after the first task.
worker_task_done_exit ==
    /\ wpc = "task_done"
    /\ unfinished_tasks' = unfinished_tasks - 1
    /\ wpc' = "exit"
    /\ task' = NoTask
    /\ total_steps' = 0
    /\ step' = 0
    /\ status_text' = NoText
    /\ UNCHANGED <<storeVars, job_queue, status, created, started, printed,
                   mergeVars, chat, eventVars>>

\* job_queue.task_done(), and back to the top of the loop.
worker_task_done ==
    /\ wpc = "task_done"
    /\ unfinished_tasks' = unfinished_tasks - 1
    /\ wpc' = "get"
    /\ task' = NoTask
    /\ total_steps' = 0
    /\ step' = 0
    /\ status_text' = NoText
    /\ UNCHANGED <<storeVars, job_queue, status, created, started, printed,
                   mergeVars, chat, eventVars>>

worker ==
    \/ worker_get
    \/ \E ok \in BOOLEAN : task_reply(ok)
    \/ \E delivered \in BOOLEAN : progress_bar("Cleaning", delivered)
    \/ \E ok \in BOOLEAN : task_op(ok)
    \/ \E ok \in BOOLEAN : task_edit(ok)
    \/ \E ok \in BOOLEAN : task_send(ok)
    \/ worker_task_done

Next ==
    \/ \E u \in Users : events < MaxEvents /\ start(u)
    \/ \E u \in Users, n \in FileNames, ts \in 0..MaxTime, d \in BOOLEAN :
          events < MaxEvents /\ handle_pdf_upload(u, n, ts, d, MaxPages)
    \/ \E u \in Users : events < MaxEvents /\ cmd_clean(u)
    \/ \E u \in Users, c \in OtherCommands : events < MaxEvents /\ unhandled(u, c)
    \/ \E p \in files : events < MaxEvents /\ external_delete(p)
    \/ worker

Spec == Init /\ [][Next]_vars

\* The queue under fairness: uploads of doc.pdf, /clean, deletions and the
\* worker.  The worker is a thread of its own that the operating system
\* keeps scheduling, and every call of the payload returns or raises: a
\* step of the worker that stays possible is eventually taken.
NextFair ==
    \/ \E u \in Users, d \in BOOLEAN :
          events < MaxEvents /\ handle_pdf_upload(u, <<"doc", ".pdf">>, 0, d, MaxPages)
    \/ \E u \in Users : events < MaxEvents /\ cmd_clean(u)
    \/ \E p \in files : events < MaxEvents /\ external_delete(p)
    \/ worker

SpecFair == Init /\ [][NextFair]_vars /\ WF_vars(worker)

(***************************************************************************)
(* progress_bar on its own, for every total_steps up to MaxTotalSteps.     *)
(***************************************************************************)
InitProgress ==
    /\ user_data = [u \in Users |-> None]
    /\ files = {}
    /\ pages = << >>
    /\ job_queue = << >>
    /\ unfinished_tasks = 0
    /\ MERGE_QUEUE = << >>
    /\ wpc = "progress"
    /\ task = NoTask
    /\ total_steps \in 1..MaxTotalSteps
    /\ step = 1
    /\ status_text = NoText
    /\ status = << >>
    /\ created = << >>
    /\ started = << >>
    /\ printed = << >>
    /\ chat = << >>
    /\ events = 0
    /\ last_event = Event("none", 0, None)
    /\ asked = [u \in Users |-> << >>]
    /\ finalized = [user |-> 0, docs |-> << >>]

NextProgress == \E delivered \in BOOLEAN : progress_bar("Processing", delivered)

SpecProgress == InitProgress /\ [][NextProgress]_vars

(***************************************************************************)
(* The merge commands: uploads, /merge and /done only, over more events.   *)
(***************************************************************************)
NextMerge ==
    \/ \E u \in Users, n \in FileNames, ts \in 0..MaxTime, d \in BOOLEAN :
          events < MaxMergeEvents /\ handle_pdf_upload(u, n, ts, d, MaxPages)
    \/ \E u \in Users, c \in {"merge", "done"} :
          events < MaxMergeEvents /\ unhandled(u, c)

SpecMerge == Init /\ [][NextMerge]_vars

(***************************************************************************)
(* Uploads of documents of every size up to MaxPages, and /split.          *)
(***************************************************************************)
NextSplit ==
    \/ \E u \in Users, n \in FileNames, ts \in 0..MaxTime, d \in BOOLEAN,
          n_pages \in 1..MaxPages :
          events < MaxEvents /\ handle_pdf_upload(u, n, ts, d, n_pages)
    \/ \E u \in Users : events < MaxEvents /\ unhandled(u, "split")

SpecSplit == Init /\ [][NextSplit]_vars

(***************************************************************************)
(* Properties                                                              *)
(***************************************************************************)
Terminal == {"Completed", "Failed"}

JobIds == 1..Len(status)

\* getCurrent of the Document Store: the session's reference, or None when
\* nothing was uploaded or the file is gone.
getCurrent(u) ==
    IF user_data[u] # None /\ user_data[u] \in files THEN user_data[u] ELSE None

\* The step is the dispatch of command kind for user u.
Dispatched(kind, u) ==
    /\ events' = events + 1
    /\ last_event'.kind = kind
    /\ last_event'.user = u

\* C1: the worker starts the jobs in exactly the order in which they were
\* enqueued (job ids count the enqueue calls): the jobs started so far are
\* the first ones enqueued, in that order, and the pending ones follow them
\* in the queue in enqueue order.
C1_FifoOrder ==
    /\ \A i \in 1..Len(started) : started[i] = i
    /\ \A i \in 1..Len(job_queue) : job_queue[i] = created[Len(started) + i]

C1_Witness ==
    /\ Len(started) = 2
    /\ status[1] \in Terminal
    /\ status[2] = "Running"

\* C2: at most one job is Running, it is the task the worker holds, and the
\* worker takes the next job only when no job is Running.
C2_RunningIsWorkerTask ==
    \A j \in JobIds : status[j] = "Running" =>
        /\ task.id = j
        /\ wpc \in {"reply", "progress", "op", "edit", "send"}
        /\ \A k \in JobIds : status[k] = "Running" => k = j

\* C2, as one formula: the invariant above, and no job is Running when the
\* worker starts one.
C2_OneRunning == []C2_RunningIsWorkerTask
                   /\ [][started' # started => \A j \in JobIds : status[j] # "Running"]_vars

C2_Witness ==
    /\ \E j \in JobIds : status[j] = "Running"
    /\ job_queue # << >>
    /\ wpc = "op"

\* C3: when a payload raises, the worker catches it: the worker goes on to
\* task_done and back to get, the pending jobs stay in the queue in their
\* order, and the next get takes the job at the head of the queue.
C3_RaiseStep ==
    (\E j \in JobIds : status[j] = "Running" /\ status'[j] = "Failed") =>
        /\ job_queue' = job_queue
        /\ wpc' = "task_done"
        /\ Len(printed') = Len(printed) + 1

C3_AfterRaise ==
    /\ (wpc = "task_done" /\ wpc' # wpc) => (wpc' = "get" /\ job_queue' = job_queue)
    /\ (wpc = "get" /\ wpc' # wpc) =>
          /\ job_queue # << >>
          /\ task' = Head(job_queue)
          /\ job_queue' = Tail(job_queue)
          /\ status'[task'.id] = "Running"

\* C3, as one formula: the worker thread is always alive, and every step
\* obeys the two step conditions above.
C3_FailureIsolation ==
    [](wpc \in {"get", "reply", "progress", "op", "edit", "send", "task_done"})
      /\ [][C3_RaiseStep /\ C3_AfterRaise]_vars

C3_Witness ==
    /\ Len(status) = 2
    /\ status[1] = "Failed"
    /\ status[2] = "Running"
    /\ task = created[2]

\* C4: a /clean dispatched for a user without a current document leaves the
\* queue and the jobs as they are and sends exactly one "Please upload a PDF
\* first." message.
C4_NoDocumentStep ==
    \A u \in Users : (Dispatched("clean", u) /\ getCurrent(u) = None) =>
        /\ job_queue' = job_queue
        /\ unfinished_tasks' = unfinished_tasks
        /\ status' = status
        /\ created' = created
        /\ chat' = Send(chat, Msg(u, "no_document", 0))

\* C4, as one formula: every step obeys C4_NoDocumentStep.
C4_NoDocument == [][C4_NoDocumentStep]_vars

C4_Witness ==
    /\ last_event.kind = "clean"
    /\ last_event.ref # None
    /\ last_event.ref \notin files
    /\ Count(chat, Msg(last_event.user, "no_document", 0)) = 1
    /\ created = << >>

\* C5: last write wins: right after a successful upload getCurrent returns
\* the reference that upload recorded, and a user's reference changes only
\* by that user's successful upload.
C5_UploadStep ==
    \A u \in Users :
        /\ (Dispatched("upload", u) => getCurrent(u)' = last_event'.ref)
        /\ (user_data'[u] # user_data[u] =>
                Dispatched("upload", u) /\ user_data'[u] = last_event'.ref)

\* C5, as one formula: every step obeys C5_UploadStep.
C5_LastWriteWins == [][C5_UploadStep]_vars

C5_Witness ==
    /\ last_event.kind = "upload"
    /\ getCurrent(last_event.user) = last_event.ref
    /\ Count(chat, Msg(last_event.user, "received", 0)) = 2
    /\ \E q \in files : q.uid = last_event.user /\ q # last_event.ref

\* C6: a job goes Pending -> Running -> Completed or Failed and nowhere
\* else, the worker dequeues it once, and a job in a terminal state is
\* neither in the queue nor in the worker's hands again.
C6_Once ==
    /\ \A i, k \in 1..Len(started) : i # k => started[i] # started[k]
    /\ \A j \in JobIds :
          /\ status[j] = "Pending" <=>
                Cardinality({i \in 1..Len(job_queue) : job_queue[i].id = j}) = 1
          /\ status[j] # "Pending" =>
                \A i \in 1..Len(job_queue) : job_queue[i].id # j
          /\ status[j] \in Terminal => (task.id = j => wpc = "task_done")

C6_Transitions ==
    /\ Len(status') >= Len(status)
    /\ \A j \in 1..Len(status') :
          IF j > Len(status) THEN status'[j] = "Pending"
          ELSE \/ status'[j] = status[j]
               \/ status[j] = "Pending" /\ status'[j] = "Running"
               \/ status[j] = "Running" /\ status'[j] \in Terminal

\* C6, as one formula: C6_Once always holds and every step obeys
\* C6_Transitions.
C6_ConsumedOnce == []C6_Once /\ [][C6_Transitions]_vars

C6_Witness ==
    /\ Len(status) = 2
    /\ status[1] = "Failed"
    /\ status[2] = "Completed"
    /\ wpc = "get"
    /\ started = <<1, 2>>

\* C7: when the Operation Library call of a job has failed and the worker
\* is through with the job, the requesting user has received one failure
\* message for that job.
C7_FailureSurfaced ==
    \A i \in 1..Len(printed) :
        (printed[i].error = "remove_watermark" /\ task.id # printed[i].job) =>
            Count(chat, Msg(created[printed[i].job].user, "failed", printed[i].job)) = 1

\* C8: once a user has sent /done after three /merge requests, MERGE_QUEUE
\* is empty and exactly one job has been built, a merge over the three
\* documents in the order of the requests.
C8_MergeFlow ==
    Len(finalized.docs) = 3 =>
        /\ MERGE_QUEUE = << >>
        /\ Cardinality({j \in 1..Len(created) : created[j].op = "merge"}) = 1
        /\ \E j \in 1..Len(created) :
              created[j].op = "merge" /\ created[j].pdf = finalized.docs

\* C9: the update progress_bar issues at a step shows
\* floor(100 * step / total_steps) percent.
C9_Percent ==
    status_text.step >= 1 =>
        status_text.text.percent = (100 * status_text.step) \div total_steps

\* C10: enqueue never waits and never refuses: /clean can be dispatched in
\* every state, whatever the worker does and however long the queue is; a
\* /clean that passes require_pdf appends exactly the task it built to the
\* tail of the queue; and every task built is in exactly one place: once in
\* the queue, in the worker's hands, or finished.
C10_Conserved ==
    /\ unfinished_tasks = Len(job_queue) + (IF task = NoTask THEN 0 ELSE 1)
    /\ \A j \in 1..Len(created) :
          Cardinality({i \in 1..Len(job_queue) : job_queue[i] = created[j]})
            + (IF task = created[j] THEN 1 ELSE 0)
            + (IF status[j] \in Terminal /\ task # created[j] THEN 1 ELSE 0) = 1

C10_NeverBlocks == \A u \in Users : ENABLED cmd_clean(u)

C10_EnqueueStep ==
    \A u \in Users : (Dispatched("clean", u) /\ getCurrent(u) # None) =>
        /\ Len(created') = Len(created) + 1
        /\ created'[Len(created')].user = u
        /\ created'[Len(created')].pdf = getCurrent(u)
        /\ job_queue' = Append(job_queue, created'[Len(created')])
        /\ unfinished_tasks' = unfinished_tasks + 1

\* C10, as one formula: the three parts above.
C10_EnqueueUnconditional ==
    [](C10_Conserved /\ C10_NeverBlocks) /\ [][C10_EnqueueStep]_vars

C10_Witness ==
    /\ last_event.kind = "clean"
    /\ wpc = "op"
    /\ Len(job_queue) = 1
    /\ job_queue[1] = created[2]
    /\ task = created[1]

\* C11: a /clean handler that passes require_pdf only enqueues and returns:
\* its step sends no message, writes no file, moves neither the progress
\* text nor the worker, and leaves the new job Pending at the tail of the
\* queue.
C11_HandlerStep ==
    \A u \in Users : (Dispatched("clean", u) /\ require_pdf(u)) =>
        /\ UNCHANGED <<chat, files, workerVars>>
        /\ Len(job_queue') = Len(job_queue) + 1
        /\ job_queue'[Len(job_queue')].id = Len(status')
        /\ status'[Len(status')] = "Pending"

\* C11: the messages of a job and the progress text change, and a file
\* other than the one an upload saves is written, only in steps of the
\* worker thread, while it holds that job.
C11_PayloadStep ==
    LET job_message == \E m \in DOMAIN chat' :
                          m.job # 0 /\ Count(chat', m) # Count(chat, m)
        op_output == \E p \in files' \ files :
                          ~(last_event'.kind = "upload" /\ last_event'.ref = p
                              /\ events' # events)
    IN  (job_message \/ status_text' # status_text \/ op_output) =>
            /\ UNCHANGED eventVars
            /\ wpc \in {"reply", "progress", "op", "edit", "send", "task_done"}
            /\ task # NoTask
            /\ \A m \in DOMAIN chat' :
                  Count(chat', m) # Count(chat, m) => m.job = task.id

\* C11, as one formula.
C11_WorkerContext == [][C11_HandlerStep /\ C11_PayloadStep]_vars

C11_Witness ==
    /\ last_event.kind = "clean"
    /\ status = <<"Running">>
    /\ wpc = "edit"
    /\ Count(chat, Msg(task.user, "started", 1)) = 1
    /\ task.out \in files

\* C12: when a user whose current document has n pages has sent /split,
\* get_page_count gives n for the document, split_pdf gives n paths, the
\* i-th for page i, and a split job over the document has been built; once
\* that job is Completed the user has received n result messages.
C12_SplitFlow ==
    \A u \in Users :
        (last_event.kind = "split" /\ last_event.user = u
            /\ last_event.ref # None /\ getCurrent(u) = last_event.ref) =>
            LET doc   == last_event.ref
                n     == pages[doc]
                paths == split_pdf(doc, "pdf_files")
            IN  /\ get_page_count(doc) = n
                /\ Len(paths) = n
                /\ \A i \in 1..n : paths[i] = PagePath("pdf_files", i)
                /\ \E j \in JobIds :
                      /\ created[j].op = "split"
                      /\ created[j].user = u
                      /\ created[j].pdf = doc
                      /\ status[j] = "Completed" =>
                            Count(chat, Msg(u, "page", j)) = n

\* C13: the task in the queue or in the worker's hands is the one /clean
\* built: it carries the input and output captured at dispatch.
C13_TaskIsCreated ==
    /\ \A i \in 1..Len(job_queue) : job_queue[i] = created[job_queue[i].id]
    /\ task # NoTask => task = created[task.id]

\* C13: what a job captured never changes, whatever its user uploads later,
\* and the operation reads the captured input and writes the captured
\* output, not the user's current document.
C13_CapturedStep ==
    /\ \A j \in JobIds : created'[j] = created[j]
    /\ (wpc = "op" /\ wpc' = "edit") =>
          /\ created[task.id].pdf \in files
          /\ files' = files \cup {created[task.id].out}
    /\ (wpc = "send" /\ status'[task.id] = "Completed") =>
          created[task.id].out \in files

\* C13, as one formula.
C13_CapturedInputs == []C13_TaskIsCreated /\ [][C13_CapturedStep]_vars

C13_Witness ==
    /\ wpc = "edit"
    /\ last_event.kind = "upload"
    /\ last_event.user = task.user
    /\ user_data[task.user] # task.pdf
    /\ task.out \in files
    /\ clean_out(user_data[task.user]) \notin files

\* The messages of job j delivered so far, by kind.
JobMsgs(j, kind) == Count(chat, Msg(created[j].user, kind, j))

\* C14: where the payload stands tells what it has done: nothing before the
\* "started" message; during the progress loop and the operation the
\* "started" message and no completion message; the operation begins after
\* the update of the last step; the artifact is sent after the completion
\* message; a job whose operation failed has neither.
C14_Order ==
    /\ \A j \in JobIds :
          /\ JobMsgs(j, "document") <= JobMsgs(j, "cleaned")
          /\ JobMsgs(j, "cleaned") <= JobMsgs(j, "started")
          /\ JobMsgs(j, "started") <= 1
          /\ status[j] = "Pending" => JobMsgs(j, "started") = 0
          /\ status[j] = "Completed" => JobMsgs(j, "document") = 1
    /\ \A i \in 1..Len(printed) :
          printed[i].error \in {"reply_text", "remove_watermark"} =>
              /\ JobMsgs(printed[i].job, "cleaned") = 0
              /\ JobMsgs(printed[i].job, "document") = 0
    /\ wpc = "reply" => JobMsgs(task.id, "started") = 0
    /\ wpc \in {"progress", "op", "edit"} =>
          JobMsgs(task.id, "started") = 1 /\ JobMsgs(task.id, "cleaned") = 0
    /\ wpc = "progress" => status_text.step = step - 1
    /\ wpc \in {"op", "edit", "send"} => status_text.step = total_steps
    /\ wpc = "send" =>
          JobMsgs(task.id, "cleaned") = 1 /\ JobMsgs(task.id, "document") = 0

\* C14: the completion message is sent from the point after the operation,
\* and the payload gets there only by an operation that found its input and
\* wrote its output; an operation that fails ends the job as Failed.
C14_OpStep ==
    /\ (wpc' = "edit" /\ wpc # "edit") =>
          /\ wpc = "op"
          /\ task.pdf \in files
          /\ task.out \in files'
    /\ (wpc = "op" /\ wpc' # "op" /\ wpc' # "edit") =>
          /\ status'[task.id] = "Failed"
          /\ wpc' = "task_done"
          /\ UNCHANGED <<chat, files>>
    /\ (\E j \in JobIds : JobMsgs(j, "cleaned")' # JobMsgs(j, "cleaned")) =>
          wpc = "edit"
    /\ (\E j \in JobIds : JobMsgs(j, "document")' # JobMsgs(j, "document")) =>
          wpc = "send"

\* C14, as one formula.
C14_PayloadOrder == []C14_Order /\ [][C14_OpStep]_vars

C14_Witness ==
    /\ Len(status) = 2
    /\ status[1] = "Failed"
    /\ \E i \in 1..Len(printed) :
          printed[i] = [job |-> 1, error |-> "remove_watermark"]
    /\ JobMsgs(1, "started") = 1
    /\ JobMsgs(1, "cleaned") = 0
    /\ status[2] = "Completed"
    /\ JobMsgs(2, "cleaned") = 1
    /\ JobMsgs(2, "document") = 1

\* C15: every iteration of the progress loop, whether its update takes
\* effect or fails, issues the update of the current step, moves to the next
\* step, fails no job and prints nothing; the loop is left after the update
\* of step total_steps and only then, for the operation.
C15_ProgressStep ==
    wpc = "progress" =>
        /\ step \in 1..total_steps
        /\ status_text'.step = step
        /\ status_text'.text = progress_text("Cleaning", step, total_steps)
        /\ step' = step + 1
        /\ wpc' = IF step = total_steps THEN "op" ELSE "progress"
        /\ UNCHANGED <<status, printed, task, total_steps, chat>>

\* C15: a failed update is no obstacle: after it the job is still Running,
\* nothing was printed for it, and the worker stands at the next iteration
\* or, after the last step, at the operation.
C15_GoesOn ==
    (wpc \in {"progress", "op"} /\ status_text.step >= 1 /\ ~status_text.delivered) =>
        /\ status[task.id] = "Running"
        /\ \A i \in 1..Len(printed) : printed[i].job # task.id
        /\ step = status_text.step + 1
        /\ wpc = "progress" <=> step <= total_steps

\* C15, as one formula.  Handler steps leave the worker where it is.
C15_FailureSwallowed ==
    []C15_GoesOn /\ [][UNCHANGED eventVars => C15_ProgressStep]_vars

C15_Witness ==
    /\ wpc = "op"
    /\ ~status_text.delivered
    /\ status_text.step = 8
    /\ status[task.id] = "Running"
    /\ printed = << >>

\* C16: every job enqueued is eventually Completed or Failed: again and
\* again all the jobs enqueued so far are over.
C16_Terminates == []<>(\A j \in JobIds : status[j] \in Terminal)

\* C16: a job that is over stays as it is.
C16_TerminalStep ==
    \A j \in JobIds : status[j] \in Terminal => status'[j] = status[j]

\* C16: a Pending job waits for earlier jobs only: when all the jobs
\* enqueued before it are over, it is at the head of the queue and the
\* worker is about to take it.
C16_DelayedByEarlier ==
    \A j \in JobIds : status[j] = "Pending" =>
        \/ \E i \in 1..(j - 1) : status[i] \notin Terminal
        \/ /\ job_queue # << >>
           /\ Head(job_queue).id = j
           /\ wpc \in {"get", "task_done"}

\* C16: a job leaves Pending only when the worker is back at get: as long
\* as the payload of an earlier job has not returned, the job stays Pending.
C16_PendingStep ==
    \A j \in JobIds : (status[j] = "Pending" /\ status'[j] # "Pending") =>
        /\ wpc = "get"
        /\ task = NoTask
        /\ status'[j] = "Running"
        /\ \A i \in 1..(j - 1) : status[i] \in Terminal

\* C16, as one formula.
C16_Liveness ==
    /\ C16_Terminates
    /\ []C16_DelayedByEarlier
    /\ [][C16_TerminalStep /\ C16_PendingStep]_vars

C16_Witness ==
    /\ started = <<1, 2>>
    /\ status[1] \in Terminal
    /\ status[2] \in Terminal
    /\ job_queue = << >>
    /\ unfinished_tasks = 0
    /\ wpc = "get"

\* C17: the output path /clean derives from an accepted document is not the
\* document's own path: for the current document of every user, and for
\* the input and output of every job built.
C17_OutputDiffers ==
    /\ \A u \in Users : user_data[u] # None => clean_out(user_data[u]) # user_data[u]
    /\ \A j \in JobIds : created[j].out # created[j].pdf

\* The user a step acts for: the sender of the update a handler step
\* handles, the owner of the job in a step of the worker, 0 in a deletion.
ActingUser ==
    IF events' # events THEN last_event'.user
    ELSE IF task # NoTask THEN task.user
    ELSE task'.user

\* C18: a step that acts for one user leaves the reference and the current
\* document of every other user as they are, and a user's reference is
\* always a path of that user's own upload.
C18_OtherSessionsStep ==
    \A v \in Users : ActingUser \in Users \ {v} =>
        /\ user_data'[v] = user_data[v]
        /\ getCurrent(v)' = getCurrent(v)

C18_OwnUploads ==
    \A v \in Users : user_data[v] # None =>
        /\ user_data[v].uid = v
        /\ endswith_pdf(lower(user_data[v].name))

\* C18, as one formula.
C18_SessionIsolation == []C18_OwnUploads /\ [][C18_OtherSessionsStep]_vars

C18_Witness ==
    /\ last_event.kind = "upload"
    /\ last_event.user = 2
    /\ getCurrent(2) = last_event.ref
    /\ getCurrent(1) # None
    /\ getCurrent(1).uid = 1
    /\ status = <<"Running">>
    /\ task.user = 1
    /\ task.pdf = getCurrent(1)

====
